---------------------------- MODULE Spec2Model ----------------------------
(***************************************************************************)
(* Model of src/index.js (semver-action): main() resolves the latest tag,  *)
(* pages through the commits between that tag and the branch, tallies the  *)
(* conventional-commit types, resolves the bump and exports the next       *)
(* version.                                                                *)
(*                                                                         *)
(* Strings are sequences of one-character strings, so that formatting a    *)
(* version and parsing a tag name are computed, not assumed.               *)
(***************************************************************************)
EXTENDS Integers, Sequences, FiniteSets, TLC

VARIABLES pc, latestTag, curPage, totalCommits, hasMoreCommits, commits,
          idx, majorChanges, minorChanges, patchChanges, bump,
          failed, exported, pages

vars == <<pc, latestTag, curPage, totalCommits, hasMoreCommits, commits,
          idx, majorChanges, minorChanges, patchChanges, bump,
          failed, exported, pages>>

(***************************************************************************)
(* Bounds of the model.                                                    *)
(***************************************************************************)
\* largest total_commits a response reports
MaxTotal == 101
\* per_page of the compare request, and the page size of the loop condition
PerPage == 100

\* JavaScript null (a value no string equals)
null == <<"<null>">>

(***************************************************************************)
(* Strings.                                                                *)
(***************************************************************************)
Digits == <<"0", "1", "2", "3", "4", "5", "6", "7", "8", "9">>

IsDigit(c) == \E d \in 1..10 : Digits[d] = c

DigitVal(c) == (CHOOSE d \in 1..10 : Digits[d] = c) - 1

RECURSIVE NumToStr(_)
\* String(n) for a non-negative integer
NumToStr(n) ==
  IF n < 10 THEN <<Digits[n + 1]>>
  ELSE NumToStr(n \div 10) \o <<Digits[(n % 10) + 1]>>

RECURSIVE StrToNum(_)
\* the number a string of digits denotes
StrToNum(s) ==
  IF s = <<>> THEN 0
  ELSE 10 * StrToNum(SubSeq(s, 1, Len(s) - 1)) + DigitVal(s[Len(s)])

RECURSIVE SplitDots(_)
\* s.split('.')
SplitDots(s) ==
  IF \A i \in 1..Len(s) : s[i] # "."
  THEN <<s>>
  ELSE LET k == CHOOSE i \in 1..Len(s) :
                  s[i] = "." /\ \A j \in 1..(i - 1) : s[j] # "."
       IN <<SubSeq(s, 1, k - 1)>> \o SplitDots(SubSeq(s, k + 1, Len(s)))

\* semver's numeric identifier: 0|[1-9]\d*
IsNumericId(s) ==
  /\ Len(s) >= 1
  /\ \A i \in 1..Len(s) : IsDigit(s[i])
  /\ (Len(s) > 1 => s[1] # "0")

(***************************************************************************)
(* semver.inc(version, release) as index.js uses it: the version is parsed *)
(* strictly (one optional leading 'v', then MAJOR.MINOR.PATCH), a version  *)
(* that does not parse gives null, and the result is the bare version      *)
(* string.  Tags with a prerelease or build part are outside the tag set   *)
(* of this model.                                                          *)
(***************************************************************************)
StripV(s) == IF Len(s) >= 1 /\ s[1] = "v" THEN SubSeq(s, 2, Len(s)) ELSE s

SemVerValid(s) ==
  LET parts == SplitDots(StripV(s))
  IN  Len(parts) = 3 /\ \A i \in 1..3 : IsNumericId(parts[i])

SemVerParse(s) ==
  LET parts == SplitDots(StripV(s))
  IN  [major |-> StrToNum(parts[1]),
       minor |-> StrToNum(parts[2]),
       patch |-> StrToNum(parts[3])]

SemVerFormat(v) ==
  NumToStr(v.major) \o <<".">> \o NumToStr(v.minor) \o <<".">> \o NumToStr(v.patch)

SemVerInc_NoReset(v, release) ==
  CASE release = "major" -> [v EXCEPT !.major = @ + 1]
    [] release = "minor" -> [v EXCEPT !.minor = @ + 1]
    [] release = "patch" -> [v EXCEPT !.patch = @ + 1]

SemVerInc(v, release) ==
  CASE release = "major" -> [major |-> v.major + 1, minor |-> 0, patch |-> 0]
    [] release = "minor" -> [major |-> v.major, minor |-> v.minor + 1, patch |-> 0]
    [] release = "patch" -> [major |-> v.major, minor |-> v.minor, patch |-> v.patch + 1]

inc(version, release) ==
  IF SemVerValid(version)
  THEN SemVerFormat(SemVerInc(SemVerParse(version), release))
  ELSE null


TemplateV_NoPrefix(next) ==
  IF next = null THEN <<"n", "u", "l", "l">> ELSE next

\* `v${next}`: a template literal renders null as the text null
TemplateV(next) ==
  <<"v">> \o (IF next = null THEN <<"n", "u", "l", "l">> ELSE next)

\* core.exportVariable stores toCommandValue(val): null becomes the empty string
toCommandValue(val) == IF val = null THEN <<>> ELSE val

(***************************************************************************)
(* Commit messages and the conventional-commits parser.  A message is its  *)
(* header's leading word, whether the header has the conventional shape    *)
(* type(scope): subject, and the titles of its footers.  cc.parser throws  *)
(* on a header that has not that shape; toConventionalChangelogFormat      *)
(* gives the type and one note per footer.                                 *)
(***************************************************************************)
FeatMsg     == [word |-> "feat",  conventional |-> TRUE,  footers |-> <<>>]
FixMsg      == [word |-> "fix",   conventional |-> TRUE,  footers |-> <<>>]
ChoreMsg    == [word |-> "chore", conventional |-> TRUE,  footers |-> <<"Reviewed-by">>]
BreakingMsg == [word |-> "fix",   conventional |-> TRUE,
                footers |-> <<"BREAKING CHANGE">>]
Breaking2Msg == [word |-> "docs",  conventional |-> TRUE,
                footers |-> <<"BREAKING CHANGE", "Reviewed-by", "BREAKING CHANGE">>]
\* "feat no colon" followed by a BREAKING CHANGE footer: not a conventional commit
InvalidMsg  == [word |-> "feat",  conventional |-> FALSE,
                footers |-> <<"BREAKING CHANGE">>]

Messages == {FeatMsg, FixMsg, ChoreMsg, BreakingMsg, Breaking2Msg, InvalidMsg}

parser_Lenient(message) ==
  [threw |-> FALSE,
   type  |-> message.word,
   notes |-> [i \in DOMAIN message.footers |-> [title |-> message.footers[i]]]]

parser(message) ==
  IF message.conventional
  THEN [threw |-> FALSE,
        type  |-> message.word,
        notes |-> [i \in DOMAIN message.footers |-> [title |-> message.footers[i]]]]
  ELSE [threw |-> TRUE, type |-> "", notes |-> <<>>]

bumpTypes_NoFix ==
  [major |-> {},
   minor |-> {"feat", "feature"},
   patch |-> {"bugfix", "perf", "refactor", "test", "tests"}]

bumpTypes ==
  [major |-> {},
   minor |-> {"feat", "feature"},
   patch |-> {"fix", "bugfix", "perf", "refactor", "test", "tests"}]

BreakingNotes(cAst) ==
  Cardinality({i \in DOMAIN cAst.notes : cAst.notes[i].title = "BREAKING CHANGE"})

\* a BREAKING CHANGE note reclassifies the commit instead of adding to its type
Tally_Exclusive(cAst, t) ==
  IF BreakingNotes(cAst) > 0
  THEN [t EXCEPT !.major = @ + 1]
  ELSE IF cAst.type \in bumpTypes.minor THEN [t EXCEPT !.minor = @ + 1]
  ELSE IF cAst.type \in bumpTypes.patch THEN [t EXCEPT !.patch = @ + 1]
  ELSE t

\* the body of the try block: the counters after one parsed commit
Tally(cAst, t) ==
  LET byType ==
        IF cAst.type \in bumpTypes.major THEN [t EXCEPT !.major = @ + 1]
        ELSE IF cAst.type \in bumpTypes.minor THEN [t EXCEPT !.minor = @ + 1]
        ELSE IF cAst.type \in bumpTypes.patch THEN [t EXCEPT !.patch = @ + 1]
        ELSE t
  IN  [byType EXCEPT !.major = @ + BreakingNotes(cAst)]

ResolveBump_MinorFirst(major, minor, patch) ==
  IF minor > 0 THEN "minor"
  ELSE IF major > 0 THEN "major"
  ELSE IF patch > 0 THEN "patch"
  ELSE "none"

\* the if/else chain that sets bump; "none" is the branch that fails the run
ResolveBump(major, minor, patch) ==
  IF major > 0 THEN "major"
  ELSE IF minor > 0 THEN "minor"
  ELSE IF patch > 0 THEN "patch"
  ELSE "none"

(***************************************************************************)
(* The collaborators' answers.                                             *)
(***************************************************************************)
TagV123   == <<"v", "1", ".", "2", ".", "3">>
Tag123    == <<"1", ".", "2", ".", "3">>
TagRel123 == <<"r", "1", ".", "2", ".", "3">>
TagV099   == <<"v", "0", ".", "9", ".", "9">>

TagNames == {TagV123, Tag123, TagRel123, TagV099}

\* repository.refs.nodes[0]: a tag, or nothing
TagAnswers == TagNames \cup {null}

RECURSIVE Repeat(_, _)
Repeat(m, n) == IF n = 0 THEN <<>> ELSE <<m>> \o Repeat(m, n - 1)

\* the last page of a range: no commit, or one
ShortPages == {<<>>} \cup {<<m>> : m \in Messages}

\* a page of per_page commits
FullPages == {Repeat(ChoreMsg, PerPage)}

PageBodies == ShortPages \cup FullPages

Totals == {0, 1, PerPage, MaxTotal}

NoTagMsg     == "Couldn't find the latest tag. Make sure you have at least one tag created first."
NoCommitsMsg == "Couldn't find any commits between HEAD and latest tag."
NoBumpMsg    == "No commit resulted in a version bump since last release!"

(***************************************************************************)
(* main()                                                                  *)
(***************************************************************************)
Init ==
  /\ pc = "tags"
  /\ latestTag = null
  /\ curPage = 0
  /\ totalCommits = 0
  /\ hasMoreCommits = FALSE
  /\ commits = <<>>
  /\ idx = 0
  /\ majorChanges = 0
  /\ minorChanges = 0
  /\ patchChanges = 0
  /\ bump = null
  /\ failed = <<>>
  /\ exported = <<>>
  /\ pages = <<>>

\* lines 22-46: the tag query and the check of its answer
GetLatestTag ==
  /\ pc = "tags"
  /\ \E t \in TagAnswers :
       /\ latestTag' = t
       /\ IF t = null
          THEN /\ failed' = Append(failed, NoTagMsg)
               /\ pc' = "done"
          ELSE /\ failed' = failed
               /\ pc' = "fetch"
  /\ UNCHANGED <<curPage, totalCommits, hasMoreCommits, commits, idx,
                 majorChanges, minorChanges, patchChanges, bump, exported, pages>>

HasMore_OrEqual(page, len, total) == (page - 1) * PerPage + len <= total

HasMore_NoOffset(page, len, total) == len < total

HasMore_Strict(page, len, total) == (page - 1) * PerPage + len + 1 < total

\* line 67: the condition that asks for another page
HasMore(page, len, total) == (page - 1) * PerPage + len < total

\* lines 54-70: one iteration of the do/while loop
FetchPage ==
  /\ pc = "fetch"
  /\ \E rangeCommits \in PageBodies, total \in Totals :
       /\ curPage' = curPage + 1
       /\ totalCommits' = total
       /\ commits' = commits \o rangeCommits
       /\ hasMoreCommits' = HasMore(curPage', Len(rangeCommits), total)
       /\ pages' = Append(pages, [page  |-> curPage',
                                  len   |-> Len(rangeCommits),
                                  total |-> total])
       /\ pc' = IF hasMoreCommits' THEN "fetch" ELSE "check"
  /\ UNCHANGED <<latestTag, idx, majorChanges, minorChanges, patchChanges,
                 bump, failed, exported>>

\* lines 72-80: the empty-range check, then the counters
CheckCommits ==
  /\ pc = "check"
  /\ IF Len(commits) < 1
     THEN /\ failed' = Append(failed, NoCommitsMsg)
          /\ pc' = "done"
          /\ UNCHANGED idx
     ELSE /\ failed' = failed
          /\ idx' = 1
          /\ pc' = "scan"
  /\ majorChanges' = 0
  /\ minorChanges' = 0
  /\ patchChanges' = 0
  /\ UNCHANGED <<latestTag, curPage, totalCommits, hasMoreCommits, commits,
                 bump, exported, pages>>

\* lines 81-105: one iteration of the for loop
ScanCommit ==
  /\ pc = "scan"
  /\ idx <= Len(commits)
  /\ LET cAst == parser(commits[idx])
         t    == [major |-> majorChanges, minor |-> minorChanges,
                  patch |-> patchChanges]
         t2   == IF cAst.threw THEN t ELSE Tally(cAst, t)
     IN  /\ majorChanges' = t2.major
         /\ minorChanges' = t2.minor
         /\ patchChanges' = t2.patch
  /\ idx' = idx + 1
  /\ pc' = IF idx' > Len(commits) THEN "bump" ELSE "scan"
  /\ UNCHANGED <<latestTag, curPage, totalCommits, hasMoreCommits, commits,
                 bump, failed, exported, pages>>

\* the no-bump branch reports the failure but goes on to export
BumpVersion_NoReturn ==
  /\ pc = "bump"
  /\ LET b    == ResolveBump(majorChanges, minorChanges, patchChanges)
         next == IF b = "none" THEN null ELSE inc(latestTag, b)
     IN  /\ failed' = IF b = "none" THEN Append(failed, NoBumpMsg) ELSE failed
         /\ bump' = IF b = "none" THEN null ELSE b
         /\ exported' = exported \o <<[name |-> "next", val |-> TemplateV(next)],
                             [name |-> "nextStrict", val |-> toCommandValue(next)]>>
  /\ pc' = "done"
  /\ UNCHANGED <<latestTag, curPage, totalCommits, hasMoreCommits, commits,
                 idx, majorChanges, minorChanges, patchChanges, pages>>

\* lines 107-126: resolve the bump, increment the version, export it
BumpVersion ==
  /\ pc = "bump"
  /\ LET b == ResolveBump(majorChanges, minorChanges, patchChanges)
     IN  IF b = "none"
         THEN /\ failed' = Append(failed, NoBumpMsg)
              /\ UNCHANGED <<bump, exported>>
         ELSE LET next == inc(latestTag, b)
              IN  /\ bump' = b
                  /\ exported' = exported \o
                       <<[name |-> "next",       val |-> TemplateV(next)],
                         [name |-> "nextStrict", val |-> toCommandValue(next)]>>
                  /\ failed' = failed
  /\ pc' = "done"
  /\ UNCHANGED <<latestTag, curPage, totalCommits, hasMoreCommits, commits,
                 idx, majorChanges, minorChanges, patchChanges, pages>>

Next == GetLatestTag \/ FetchPage \/ CheckCommits \/ ScanCommit \/ BumpVersion

Spec == Init /\ [][Next]_vars

(***************************************************************************)
(* What the claims speak of, stated on the commit messages themselves.     *)
(***************************************************************************)
MinorList == {"feat", "feature"}
PatchList == {"fix", "bugfix", "perf", "refactor", "test", "tests"}

Parses(m) == m.conventional

BreakingFooters(m) ==
  Cardinality({i \in DOMAIN m.footers : m.footers[i] = "BREAKING CHANGE"})

\* the for loop has run over a non-empty list and main() has returned
ScanEnded == pc = "done" /\ Len(commits) >= 1 /\ idx = Len(commits) + 1

AnyMajor == \E i \in DOMAIN commits :
              Parses(commits[i]) /\ BreakingFooters(commits[i]) > 0
AnyMinor == \E i \in DOMAIN commits :
              Parses(commits[i]) /\ commits[i].word \in MinorList
AnyPatch == \E i \in DOMAIN commits :
              Parses(commits[i]) /\ commits[i].word \in PatchList

Output(name) ==
  {exported[i].val : i \in {j \in DOMAIN exported : exported[j].name = name}}

\* C1: the run ends with the failure 'No commit resulted in a version bump'
\* if and only if every scanned commit fails to parse or has a type outside
\* the minor and patch lists, and no parsed commit has a BREAKING CHANGE note.
C1_NoBumpIff ==
  ScanEnded =>
    ( (failed = <<NoBumpMsg>>)
      <=> /\ \A i \in DOMAIN commits :
               \/ ~Parses(commits[i])
               \/ commits[i].word \notin (MinorList \cup PatchList)
          /\ \A i \in DOMAIN commits :
               Parses(commits[i]) => BreakingFooters(commits[i]) = 0 )

C1_Witness ==
  /\ ScanEnded
  /\ commits = <<InvalidMsg, ChoreMsg>>
  /\ failed = <<NoBumpMsg>>

\* C2: a BREAKING CHANGE note anywhere in the list makes the decision major
\* whatever else is present; otherwise a minor-classified commit makes it
\* minor; it is patch only when patch-classified commits are the only
\* classified ones.
C2_Priority ==
  ScanEnded =>
    /\ AnyMajor => bump = "major"
    /\ (~AnyMajor /\ AnyMinor) => bump = "minor"
    /\ (~AnyMajor /\ ~AnyMinor /\ AnyPatch) => bump = "patch"
    /\ bump = "patch" => (~AnyMajor /\ ~AnyMinor /\ AnyPatch)

C2_Witness ==
  /\ ScanEnded
  /\ commits = <<FeatMsg, BreakingMsg>>
  /\ minorChanges = 1 /\ patchChanges = 1
  /\ bump = "major"

\* C3 (as claimed): the pagination loop goes on exactly while the cumulative
\* number of commits fetched is below the reported total, and has stopped
\* only when the cumulative number has reached it.
C3_Original ==
  curPage >= 1 =>
    /\ pc = "fetch" => Len(commits) < totalCommits
    /\ pc # "fetch" => Len(commits) >= totalCommits

AllEarlierFull ==
  \A i \in 1..(Len(pages) - 1) : pages[i].len = PerPage

\* C3 (amended): the loop goes on exactly while (curPage - 1) * 100 plus the
\* size of the page just received is below the total that page reported; it
\* never asks for a page once the cumulative count has reached the total, and
\* when every earlier page was full it stops exactly when the cumulative
\* count has reached the total.
C3_Amended ==
  curPage >= 1 =>
    LET last == pages[Len(pages)]
    IN  /\ pc = "fetch" <=> (last.page - 1) * 100 + last.len < last.total
        /\ pc = "fetch" => Len(commits) < totalCommits
        /\ (AllEarlierFull /\ pc # "fetch") => Len(commits) >= totalCommits

\* the loop stopped after a short first page, short of the reported total
C3_Witness ==
  /\ pc = "check"
  /\ curPage = 2
  /\ pages[1].len = 1
  /\ Len(commits) < totalCommits

\* C4: a run that halts on a fatal condition sends exactly one failure
\* message and sets neither output variable; a run that sets the output
\* variables sends no failure message.
C4_FailureOrOutput ==
  /\ Len(failed) <= 1
  /\ failed # <<>> => (pc = "done" /\ exported = <<>>)
  /\ exported # <<>> => failed = <<>>
  /\ pc = "done" =>
       IF latestTag = null THEN failed = <<NoTagMsg>>
       ELSE IF Len(commits) < 1 THEN failed = <<NoCommitsMsg>>
       ELSE IF ~(AnyMajor \/ AnyMinor \/ AnyPatch) THEN failed = <<NoBumpMsg>>
       ELSE /\ failed = <<>>
            /\ Len(exported) = 2
            /\ Cardinality(Output("next")) = 1
            /\ Cardinality(Output("nextStrict")) = 1

C4_Witness ==
  /\ pc = "done"
  /\ curPage = 2
  /\ failed = <<NoCommitsMsg>>
  /\ exported = <<>>

\* the tags of the form vX.Y.Z
VTags == {[name |-> TagV123, X |-> 1, Y |-> 2, Z |-> 3],
          [name |-> TagV099, X |-> 0, Y |-> 9, Z |-> 9]}

Dotted(x, y, z) == NumToStr(x) \o <<".">> \o NumToStr(y) \o <<".">> \o NumToStr(z)

Expected(row, severity) ==
  CASE severity = "major" -> Dotted(row.X + 1, 0, 0)
    [] severity = "minor" -> Dotted(row.X, row.Y + 1, 0)
    [] severity = "patch" -> Dotted(row.X, row.Y, row.Z + 1)

\* C5: for a latest tag vX.Y.Z and a run that reaches a decision, nextStrict
\* is (X+1).0.0 for major, X.(Y+1).0 for minor and X.Y.(Z+1) for patch, and
\* next is that version behind a 'v'; tag v1.2.3 with 'fix: a', 'feat: b'
\* gives v1.3.0 and with a BREAKING CHANGE footer gives v2.0.0.
C5_Increment ==
  (pc = "done" /\ exported # <<>>) =>
    /\ \A row \in VTags :
         latestTag = row.name =>
           /\ Output("nextStrict") = {Expected(row, bump)}
           /\ Output("next") = {<<"v">> \o Expected(row, bump)}
    /\ (latestTag = TagV123 /\ commits = <<FixMsg, FeatMsg>>) =>
         Output("next") = {<<"v", "1", ".", "3", ".", "0">>}
    /\ (latestTag = TagV123 /\ commits = <<BreakingMsg>>) =>
         Output("next") = {<<"v", "2", ".", "0", ".", "0">>}
    /\ (latestTag = TagV099 /\ commits = <<FixMsg>>) =>
         Output("nextStrict") = {<<"0", ".", "9", ".", "1", "0">>}

C5_Witness ==
  /\ pc = "done"
  /\ latestTag = TagV123
  /\ commits = <<FixMsg, FeatMsg>>
  /\ bump = "minor"
  /\ Output("next") = {<<"v", "1", ".", "3", ".", "0">>}
  /\ Output("nextStrict") = {<<"1", ".", "3", ".", "0">>}

\* C6: scanning a commit whose message fails conventional-commit parsing
\* leaves the three counters unchanged, whatever the message mentions, and
\* the scan goes on to the next commit without halting the run.
C6_ParseFailureSkips ==
  [][ (pc = "scan" /\ ~Parses(commits[idx])) =>
        /\ majorChanges' = majorChanges
        /\ minorChanges' = minorChanges
        /\ patchChanges' = patchChanges
        /\ idx' = idx + 1
        /\ pc' = (IF idx < Len(commits) THEN "scan" ELSE "bump")
        /\ failed' = failed
        /\ exported' = exported ]_vars

\* an unparseable commit naming feat and BREAKING CHANGE was skipped, and the
\* scan is at the next commit
C6_Witness ==
  /\ pc = "scan"
  /\ idx = 2
  /\ commits[1] = InvalidMsg
  /\ majorChanges = 0 /\ minorChanges = 0 /\ patchChanges = 0
  /\ failed = <<>>

\* C7 (as claimed): an empty first page halts the run with the 'no commits'
\* failure and no further page is requested, whatever total it reports.
C7_Original ==
  (Len(pages) >= 1 /\ pages[1].len = 0) =>
    /\ Len(pages) = 1
    /\ pc \in {"check", "done"}
    /\ pc = "done" => failed = <<NoCommitsMsg>>

\* C7 (amended): an empty first page that reports a total of 0 halts the run
\* with the 'no commits' failure and no further page is requested; an empty
\* first page that reports a positive total makes the loop request page 2,
\* and the run then halts with that failure exactly when no page brought a
\* commit.
C7_Amended ==
  (Len(pages) >= 1 /\ pages[1].len = 0) =>
    /\ pages[1].total = 0 =>
         /\ Len(pages) = 1
         /\ pc \in {"check", "done"}
         /\ pc = "done" => failed = <<NoCommitsMsg>>
    /\ pages[1].total > 0 =>
         \/ (pc = "fetch" /\ Len(pages) = 1)
         \/ Len(pages) >= 2
    /\ pc = "done" => (failed = <<NoCommitsMsg>> <=> Len(commits) = 0)

C7_Witness ==
  /\ pc = "done"
  /\ pages = <<[page |-> 1, len |-> 0, total |-> 0]>>
  /\ failed = <<NoCommitsMsg>>

\* the tags with the prefix and the version the claim reads in them
PrefixedTags ==
  {[name |-> TagV123,   prefix |-> <<"v">>, X |-> 1, Y |-> 2, Z |-> 3],
   [name |-> TagV099,   prefix |-> <<"v">>, X |-> 0, Y |-> 9, Z |-> 9],
   [name |-> Tag123,    prefix |-> <<>>,    X |-> 1, Y |-> 2, Z |-> 3],
   [name |-> TagRel123, prefix |-> <<"r">>, X |-> 1, Y |-> 2, Z |-> 3]}

\* C8 (as claimed): on a successful run next is the tag's own prefix followed
\* by the incremented version and nextStrict is the incremented version, for
\* a tag with prefix 'v', with no prefix and with another prefix.
C8_Original ==
  (pc = "done" /\ exported # <<>>) =>
    \A row \in PrefixedTags :
      latestTag = row.name =>
        /\ Output("next") = {row.prefix \o Expected(row, bump)}
        /\ Output("nextStrict") = {Expected(row, bump)}

\* C8 (amended): next is always the letter 'v' followed by what semver.inc
\* returns and nextStrict is what semver.inc returns: for a tag with prefix
\* 'v' or with no prefix that is 'v' + the incremented version and the bare
\* incremented version; for a tag with another prefix semver.inc returns
\* null, so next is 'vnull' and nextStrict is empty.
C8_Amended ==
  (pc = "done" /\ exported # <<>>) =>
    \A row \in PrefixedTags :
      latestTag = row.name =>
        IF row.prefix \in {<<"v">>, <<>>}
        THEN /\ Output("next") = {<<"v">> \o Expected(row, bump)}
             /\ Output("nextStrict") = {Expected(row, bump)}
        ELSE /\ Output("next") = {<<"v", "n", "u", "l", "l">>}
             /\ Output("nextStrict") = {<<>>}

\* a tag without prefix: next carries a 'v' the tag did not have
C8_Witness ==
  /\ pc = "done"
  /\ latestTag = Tag123
  /\ bump = "patch"
  /\ Output("next") = {<<"v", "1", ".", "2", ".", "4">>}
  /\ Output("nextStrict") = {<<"1", ".", "2", ".", "4">>}

\* C9: scanning a parsed commit adds exactly 1 to minor for feat/feature,
\* exactly 1 to patch for a type of the patch list and nothing for another
\* type, and on top of that adds 1 to major for each note titled BREAKING
\* CHANGE; no counter ever goes down.
C9_IndependentTallies ==
  [][ /\ (pc = "scan" /\ Parses(commits[idx])) =>
           /\ minorChanges' = minorChanges +
                (IF commits[idx].word \in MinorList THEN 1 ELSE 0)
           /\ patchChanges' = patchChanges +
                (IF commits[idx].word \in PatchList THEN 1 ELSE 0)
           /\ majorChanges' = majorChanges + BreakingFooters(commits[idx])
      /\ majorChanges' >= majorChanges
      /\ minorChanges' >= minorChanges
      /\ patchChanges' >= patchChanges ]_vars

\* one 'fix' commit with one BREAKING CHANGE note raised patch and major
C9_Witness ==
  /\ pc \in {"scan", "bump"}
  /\ idx = 2
  /\ commits[1] = BreakingMsg
  /\ majorChanges = 1 /\ minorChanges = 0 /\ patchChanges = 1

CeilDiv(n, d) == (n + d - 1) \div d

\* C10: with every reported total at most MaxTotal, the loop makes at least
\* one request, requests pages 1, 2, 3, ... with none repeated or skipped,
\* and makes at most ceil(MaxTotal / 100) + 1 requests.
C10_BoundedPaging ==
  /\ Len(pages) = curPage
  /\ \A i \in DOMAIN pages : pages[i].page = i
  /\ curPage <= CeilDiv(MaxTotal, 100) + 1
  /\ (pc \in {"check", "scan", "bump"} \/ (pc = "done" /\ latestTag # null))
       => curPage >= 1

\* the loop stopped at the last request the bound allows
C10_Witness ==
  /\ pc = "check"
  /\ curPage = CeilDiv(MaxTotal, 100) + 1

=============================================================================
